---- MODULE Spec2Model ----
(***************************************************************************)
(* A model of blockconvert's DNS resolution pipeline (src/dns_lookup.rs)   *)
(* and of its filter builder / filter engine (src/domain_filter.rs).       *)
(*                                                                         *)
(* Strings are sequences of one-character strings, so that serialising a   *)
(* record and parsing a cache line are computed character by character.    *)
(***************************************************************************)
EXTENDS Integers, Sequences, FiniteSets, Bags, TLC

(***************************************************************************)
(* Bounds of the model.                                                    *)
(***************************************************************************)
\* The in-flight window.  The source fixes it at 500 (the range 0..500 of
\* dns_lookup.rs:141); the model scales it down and keeps every comparison
\* against it symbolic.
WindowSize == 2
\* Number of distinct domains of the universe (inputs are its subsets).
NumDomains == 3
\* Largest number of resolver endpoints in `servers`.
NumServers == 3
\* Number of input domains of a run observed for its endpoint assignment.
NumLookups == 5
\* Largest number of files in the cache directory before the first run.
MaxFiles == 2
\* Longest cname list / ip list of a record given to the codec.
MaxListLen == 2
\* Number of builder insertions explored before the filter is compiled.
MaxInserts == 2
\* Longest sequence of builder calls followed call by call.
MaxOps == 3

(***************************************************************************)
(* Characters and strings.                                                 *)
(***************************************************************************)
NL == "\n"
Labels == <<"a", "b", "c", "d", "e", "f">>
LowerCase == {"a", "b", "c", "d", "e", "f"}
UpperCase == {"A", "B"}
WhiteSpace == {NL, " "}

RECURSIVE Flatten(_)
\* Concatenation of a sequence of strings.
Flatten(ss) == IF ss = <<>> THEN <<>> ELSE Head(ss) \o Flatten(Tail(ss))

RECURSIVE IndexFrom(_, _, _)
\* The first position at or after k where s holds character c, 0 when none.
IndexFrom(s, c, k) ==
    IF k > Len(s) THEN 0
    ELSE IF s[k] = c THEN k
    ELSE IndexFrom(s, c, k + 1)

RECURSIVE Split(_, _)
\* str::split(sep): the pieces between separators; never empty, "" gives <<"">>.
Split(s, sep) ==
    LET k == IndexFrom(s, sep, 1)
    IN  IF k = 0
        THEN <<s>>
        ELSE <<SubSeq(s, 1, k - 1)>> \o Split(SubSeq(s, k + 1, Len(s)), sep)

RECURSIVE TrimEnd(_)
\* str::trim_end: trailing white space removed.
TrimEnd(s) ==
    IF s # <<>> /\ s[Len(s)] \in WhiteSpace
    THEN TrimEnd(SubSeq(s, 1, Len(s) - 1))
    ELSE s

\* Iterator::filter(|c| !c.is_empty()) over the pieces of a split.
NonEmptyParts(parts) == SelectSeq(parts, LAMBDA p : p # <<>>)

ToLowerChar(c) == IF c = "A" THEN "a" ELSE IF c = "B" THEN "b" ELSE c

(***************************************************************************)
(* Domain (crate::Domain): a normalised, lower-case, dot-separated name.   *)
(***************************************************************************)
RECURSIVE DomainOf(_)
\* The k-th domain of the universe: "a", "b.a", "c.b.a", ...
DomainOf(k) ==
    IF k = 1 THEN <<Labels[1]>> ELSE <<Labels[k], ".">> \o DomainOf(k - 1)

Universe == {DomainOf(k) : k \in 1..NumDomains}

Fail == [ok |-> FALSE]

ValidDomainLabels(s, labels) ==
    /\ s # <<>>
    /\ \A k \in 1..Len(labels) :
          /\ labels[k] # <<>>
          /\ \A m \in 1..Len(labels[k]) :
                labels[k][m] \in LowerCase \cup UpperCase

\* str::parse::<Domain>(): the name lower-cased when it is a non-empty
\* sequence of non-empty labels, an error otherwise.
DomainParse(s) ==
    IF ValidDomainLabels(s, Split(s, "."))
    THEN [ok |-> TRUE, val |-> [k \in 1..Len(s) |-> ToLowerChar(s[k])]]
    ELSE Fail

\* Domain::iter_parent_domains: the proper ancestors of a domain
\* ("c.b.a" gives "b.a" and "a"), the domain itself excluded.
ParentDomains(d) ==
    {SubSeq(d, k + 1, Len(d)) : k \in {j \in 1..Len(d) : d[j] = "."}}

(***************************************************************************)
(* IP addresses (std::net::IpAddr), two octets wide in the model.          *)
(***************************************************************************)
Octets == {0, 1}
IpAddrs == {<<x, y>> : x \in Octets, y \in Octets}
DigitOf(n) == IF n = 0 THEN "0" ELSE "1"

\* IpAddr::to_string: the octets in decimal, separated by dots.
IpToString(ip) == <<DigitOf(ip[1]), ".", DigitOf(ip[2])>>

\* str::parse::<IpAddr>().
IpParse(s) ==
    IF /\ Len(s) = 3
       /\ s[2] = "."
       /\ s[1] \in {"0", "1"}
       /\ s[3] \in {"0", "1"}
    THEN [ok  |-> TRUE,
          val |-> <<IF s[1] = "0" THEN 0 ELSE 1, IF s[3] = "0" THEN 0 ELSE 1>>]
    ELSE Fail

(***************************************************************************)
(* DNSResultRecord and its cache-line codec.                               *)
(***************************************************************************)
DNSResultRecord(domain, cnames, ips) ==
    [domain |-> domain, cnames |-> cnames, ips |-> ips]

\* A plausible slip in to_string: the ',' after each cname is forgotten.
to_string_no_cname_comma(r) ==
    r.domain \o <<";">>
        \o Flatten([k \in 1..Len(r.cnames) |-> r.cnames[k]])
        \o <<";">>
        \o Flatten([k \in 1..Len(r.ips) |-> IpToString(r.ips[k]) \o <<",">>])

\* DNSResultRecord::to_string: domain;cname,cname,;ip,ip,
to_string(r) ==
    r.domain \o <<";">>
        \o Flatten([k \in 1..Len(r.cnames) |-> r.cnames[k] \o <<",">>])
        \o <<";">>
        \o Flatten([k \in 1..Len(r.ips) |-> IpToString(r.ips[k]) \o <<",">>])

\* A parsed element put in front of the parsed rest of its list; the `?` on
\* an element that does not parse makes the whole an error.
ParsedCons(h, t) ==
    IF h.ok /\ t.ok THEN [ok |-> TRUE, val |-> <<h.val>> \o t.val] ELSE Fail

RECURSIVE ParseDomains(_)
\* `cnames.push(cname.parse().map_err(|_| ())?)` over the pieces of a field.
ParseDomains(pieces) ==
    IF pieces = <<>> THEN [ok |-> TRUE, val |-> <<>>]
    ELSE ParsedCons(DomainParse(Head(pieces)), ParseDomains(Tail(pieces)))

RECURSIVE ParseIps(_)
\* `ips.push(ip.parse().map_err(|_| ())?)` over the pieces of a field.
ParseIps(pieces) ==
    IF pieces = <<>> THEN [ok |-> TRUE, val |-> <<>>]
    ELSE ParsedCons(IpParse(Head(pieces)), ParseIps(Tail(pieces)))

RecordOfFields(domain, cnames, ips) ==
    IF domain.ok /\ cnames.ok /\ ips.ok
    THEN [ok |-> TRUE, val |-> DNSResultRecord(domain.val, cnames.val, ips.val)]
    ELSE Fail

\* The fields are taken one at a time from the split on ';': the first is
\* the domain, the second the cnames, the third (its trailing white space
\* trimmed) the ips; empty pieces of a list are dropped.  A missing field
\* or an element that does not parse is the error Err(()); a fourth field
\* and any later one are never looked at.
FromFields(parts) ==
    IF Len(parts) < 3 THEN Fail
    ELSE RecordOfFields(
             DomainParse(parts[1]),
             ParseDomains(NonEmptyParts(Split(parts[2], ","))),
             ParseIps(NonEmptyParts(Split(TrimEnd(parts[3]), ","))))

\* <DNSResultRecord as FromStr>::from_str.
from_str(s) == FromFields(Split(s, ";"))

(***************************************************************************)
(* The state.                                                              *)
(***************************************************************************)
VARIABLES
    \* -- the resolver's environment --
    clock,          \* SystemTime::now(), in seconds
    files,          \* the dns_db directory: file name -> [modified, content]
    input,          \* the `domains` argument the caller passed to this run
    servers,        \* servers.len(), the number of endpoints passed to it
    run,            \* 1 in the first run of lookup_domains, 2 in its re-run
    prev,           \* what the previous run left: its clock, errors, file
    \* -- lookup_domains --
    pc,             \* position in lookup_domains
    unread,         \* directory entries read_dir has not yielded yet
    domains,        \* the pending set `domains`
    total_length,   \* `total_length`
    domain_iter,    \* domains `domain_iter` has not yielded yet
    range_next,     \* next value of the range (0..500) zipped with it
    tasks,          \* the FuturesUnordered pool: {[domain, server]}
    i,              \* `i`
    error_count,    \* `error_count`
    wtr,            \* the BufWriter: [path, buf]
    \* -- observations --
    calls,          \* bag of callback invocations, each with where it came from
    dispatched,     \* bag of domains handed to get_dns_results in this run
    assigned,       \* the endpoint each of them was given, in dispatch order
    written,        \* every byte this run has given to wtr.write_all
    failed,         \* domains whose lookup returned an error in this run
    \* -- the codec exercised on its own --
    rec,            \* a DNSResultRecord
    line,           \* the cache line written for it
    parsed,         \* the result of parsing that line
    \* -- the filter builder and the compiled filter --
    builder,        \* DomainFilterBuilder
    inserts,        \* number of add_* calls made on the builder
    filter,         \* DomainFilter, once to_domain_filter has run
    query,          \* the last (domain, cnames, ips) asked of the filter
    verdict,        \* and the answers it was given
    ops             \* the builder calls made one by one, in call order

envVars == <<clock, files, input, servers, run, prev>>
runVars == <<pc, unread, domains, total_length, domain_iter, range_next,
             tasks, i, error_count, wtr>>
obsVars == <<calls, dispatched, assigned, written, failed>>
resolverVars == <<envVars, runVars, obsVars>>
codecVars == <<rec, line, parsed>>
filterVars == <<builder, inserts, filter, query, verdict, ops>>
vars == <<resolverVars, codecVars, filterVars>>


(***************************************************************************)
(* The cache directory.                                                    *)
(***************************************************************************)
\* const MAX_AGE: u64 = 7 * 86400;
MAX_AGE == 7 * 86400

\* The name of the file a run started at time t appends to: the UTC date.
Today(t) == t \div 86400

\* A mis-typed comparison: a file aged exactly MAX_AGE still counts as fresh.
IsFreshInclusive(modified, now) ==
    modified <= now /\ (now - modified) <= MAX_AGE

\* The test guarding the read of one directory entry: now.duration_since
\* (modified) succeeds (the modification time is not in the future) and the
\* whole seconds elapsed are below MAX_AGE.
IsFresh(modified, now) ==
    modified <= now /\ (now - modified) < MAX_AGE

RECURSIVE ReadLines(_)
\* BufRead::read_line until it returns 0: the lines of a file, each with its
\* terminating new-line; the last one has none when the file does not end in one.
ReadLines(content) ==
    LET k == IndexFrom(content, NL, 1)
    IN  IF content = <<>> THEN <<>>
        ELSE IF k = 0 THEN <<content>>
        ELSE <<SubSeq(content, 1, k)>>
                 \o ReadLines(SubSeq(content, k + 1, Len(content)))

\* `if let Ok(record) = line.parse::<DNSResultRecord>()`: a line that
\* parses contributes its record, any other line is skipped.
KeepParsed(p, rest) == IF p.ok THEN <<p.val>> \o rest ELSE rest

RECURSIVE RecordsOfLines(_)
RecordsOfLines(ls) ==
    IF ls = <<>> THEN <<>>
    ELSE KeepParsed(from_str(Head(ls)), RecordsOfLines(Tail(ls)))

\* The records of the lines of a file that parse, in file order.
CacheRecords(content) == RecordsOfLines(ReadLines(content))

RECURSIVE BagOfSeq(_)
BagOfSeq(seq) ==
    IF seq = <<>> THEN EmptyBag
    ELSE SetToBag({Head(seq)}) (+) BagOfSeq(Tail(seq))

RecordDomains(records) == {records[k].domain : k \in 1..Len(records)}

\* One invocation of the callback f(&domain, &cnames, &ips), tagged with the
\* place it was made from: a line of cache file `file`, or a lookup.
CacheCall(r, file) ==
    [domain |-> r.domain, cnames |-> r.cnames, ips |-> r.ips,
     from |-> "cache", file |-> file]
LookupCall(r) ==
    [domain |-> r.domain, cnames |-> r.cnames, ips |-> r.ips,
     from |-> "lookup", file |-> -1]

\* The callback invocations made for the records of cache file `file`.
CacheCalls(records, file) ==
    BagOfSeq([k \in 1..Len(records) |-> CacheCall(records[k], file)])

(***************************************************************************)
(* Lookups.                                                                *)
(***************************************************************************)
FullAnswer == [cnames |-> <<DomainOf(2)>>, ips |-> <<<<0, 1>>, <<1, 0>>>>]

\* doh::lookup_domain(server, client, 3, domain): an error, Ok(None) for an
\* empty answer, or Ok(Some(record)) with a record for the domain asked.
DohLookup(domain) ==
    {[err |-> TRUE, some |-> FALSE],
     [err |-> FALSE, some |-> FALSE],
     [err |-> FALSE, some |-> TRUE,
      val |-> DNSResultRecord(domain, FullAnswer.cnames, FullAnswer.ips)]}

\* get_dns_results: the error passed on by `?`, the record of Some, and for
\* None a record of the domain with no cnames and no ips.
get_dns_results(domain) ==
    {IF r.err THEN Fail
     ELSE IF r.some THEN [ok |-> TRUE, val |-> r.val]
     ELSE [ok |-> TRUE, val |-> DNSResultRecord(domain, <<>>, <<>>)]
     : r \in DohLookup(domain)}

Task(domain, server) == [domain |-> domain, server |-> server]

NoWriter == [path |-> -1, buf |-> <<>>]
NoPrev == [clock |-> -1, errors |-> 0, wrote |-> -1]

(***************************************************************************)
(* Initial cache directories: what earlier runs can have left behind.      *)
(***************************************************************************)
StartTime == 10 * 86400 + 10

Line(r) == to_string(r) \o <<NL>>

\* What a run that resolved "b.a" and "a" wrote, and what is left of a run
\* that was cut short while its second record was being written.
CacheContents ==
    {<<NL>> \o Line(DNSResultRecord(DomainOf(2), FullAnswer.cnames, FullAnswer.ips))
            \o Line(DNSResultRecord(DomainOf(1), <<>>, <<>>)),
     <<NL>> \o Line(DNSResultRecord(DomainOf(1), FullAnswer.cnames, FullAnswer.ips))
            \o SubSeq(to_string(DNSResultRecord(DomainOf(2), <<>>, <<>>)), 1, 4)}

\* Files written just now, almost MAX_AGE ago, exactly MAX_AGE ago, and one
\* stamped after `now` (the clock was set back since).
InitialModified ==
    {StartTime, StartTime - (MAX_AGE - 1), StartTime - MAX_AGE, StartTime + 1}

FileChoices ==
    {[name |-> Today(m), modified |-> m, content |-> c] :
        m \in InitialModified, c \in CacheContents}

InitialDirs ==
    LET sets == {S \in SUBSET FileChoices :
                    /\ Cardinality(S) <= MaxFiles
                    /\ \A f, g \in S : f.name = g.name => f = g}
    IN  {[n \in {f.name : f \in S} |->
             LET f == CHOOSE g \in S : g.name = n
             IN  [modified |-> f.modified, content |-> f.content]] : S \in sets}

(***************************************************************************)
(* lookup_domains.                                                         *)
(***************************************************************************)
\* The entry of lookup_domains: nothing read, nothing in flight.
StartRun ==
    /\ pc = "read_dir"
    /\ unread = DOMAIN files
    /\ domains = input
    /\ total_length = 0
    /\ domain_iter = {}
    /\ range_next = 0
    /\ tasks = {}
    /\ i = 0
    /\ error_count = 0
    /\ wtr = NoWriter
    /\ calls = EmptyBag
    /\ dispatched = EmptyBag
    /\ assigned = <<>>
    /\ written = <<>>
    /\ failed = {}

\* One iteration of `for entry in read_dir(DNS_RECORD_DIR)`: a fresh file is
\* read line by line, and every line that parses removes its domain from
\* `domains` and is handed to the callback; any other file is only reported.
\* read_dir yields the entries in no particular order.  The files are the
\* ones runs of this function leave behind, and opening and reading them
\* succeeds.
ReadEntry(n) ==
    /\ pc = "read_dir"
    /\ n \in unread
    /\ unread' = unread \ {n}
    /\ IF IsFresh(files[n].modified, clock)
       THEN /\ domains' = domains \ RecordDomains(CacheRecords(files[n].content))
            /\ calls' = calls (+) CacheCalls(CacheRecords(files[n].content), n)
       ELSE UNCHANGED <<domains, calls>>
    /\ UNCHANGED <<envVars, pc, total_length, domain_iter, range_next, tasks,
                   i, error_count, wtr, dispatched, assigned, written,
                   failed>>
    /\ UNCHANGED <<codecVars, filterVars>>

\* A check that goes on to open today's file whether or not a domain is
\* pending.
CheckPendingAlwaysOpen ==
    /\ pc = "read_dir"
    /\ unread = {}
    /\ pc' = "open"
    /\ UNCHANGED <<envVars, unread, domains, total_length, domain_iter,
                   range_next, tasks, i, error_count, wtr, obsVars>>
    /\ UNCHANGED <<codecVars, filterVars>>

\* After the directory loop: `if domains.is_empty() { return Ok(()) }`.
CheckPending ==
    /\ pc = "read_dir"
    /\ unread = {}
    /\ pc' = IF domains = {} THEN "ok" ELSE "open"
    /\ UNCHANGED <<envVars, unread, domains, total_length, domain_iter,
                   range_next, tasks, i, error_count, wtr, obsVars>>
    /\ UNCHANGED <<codecVars, filterVars>>

\* An open that does not write the leading new-line.
OpenWriterNoSeparator(io_ok) ==
    /\ pc = "open"
    /\ IF io_ok
       THEN /\ files' = IF Today(clock) \in DOMAIN files
                        THEN files
                        ELSE files @@ (Today(clock) :>
                                 [modified |-> clock, content |-> <<>>])
            /\ wtr' = [path |-> Today(clock), buf |-> <<>>]
            /\ written' = <<>>
            /\ total_length' = Cardinality(domains)
            /\ domain_iter' = domains
            /\ pc' = "seed"
       ELSE /\ pc' = "err"
            /\ UNCHANGED <<files, wtr, written, total_length, domain_iter>>
    /\ UNCHANGED <<clock, input, servers, run, prev, unread, domains,
                   range_next, tasks, i, error_count, calls, dispatched,
                   assigned, failed>>
    /\ UNCHANGED <<codecVars, filterVars>>

\* Today's file is opened for append and created when absent; the run's
\* first write is a new-line; `domains` becomes `domain_iter`.  A failure of
\* the open or of the write returns the error.
OpenWriter(io_ok) ==
    /\ pc = "open"
    /\ IF io_ok
       THEN /\ files' = IF Today(clock) \in DOMAIN files
                        THEN files
                        ELSE files @@ (Today(clock) :>
                                 [modified |-> clock, content |-> <<>>])
            /\ wtr' = [path |-> Today(clock), buf |-> <<NL>>]
            /\ written' = <<NL>>
            /\ total_length' = Cardinality(domains)
            /\ domain_iter' = domains
            /\ pc' = "seed"
       ELSE /\ pc' = "err"
            /\ UNCHANGED <<files, wtr, written, total_length, domain_iter>>
    /\ UNCHANGED <<clock, input, servers, run, prev, unread, domains, range_next,
                   tasks, i, error_count, calls, dispatched, assigned,
                   failed>>
    /\ UNCHANGED <<codecVars, filterVars>>

\* The range of `for (i, domain) in (0..500).zip(&mut domain_iter)` taken
\* one value too far, as 0..=500 would.
InSeedRangeInclusive(k) == k <= WindowSize

\* Whether the range 0..500 still yields k.
InSeedRange(k) == k < WindowSize

\* One step of the seeding loop.  Zip asks the range first and the domain
\* iterator only when the range yielded, so no domain is taken and dropped
\* when the range ends; the set's iteration order is arbitrary.
SeedStep ==
    /\ pc = "seed"
    /\ IF InSeedRange(range_next) /\ domain_iter # {}
       THEN \E d \in domain_iter :
                /\ tasks' = tasks \cup {Task(d, range_next % servers)}
                /\ domain_iter' = domain_iter \ {d}
                /\ dispatched' = dispatched (+) SetToBag({d})
                /\ assigned' = Append(assigned, range_next % servers)
                /\ range_next' = range_next + 1
                /\ pc' = pc
       ELSE /\ pc' = "loop"
            /\ UNCHANGED <<tasks, domain_iter, dispatched, assigned,
                         range_next>>
    /\ UNCHANGED <<envVars, unread, domains, total_length, i, error_count,
                   wtr, calls, written, failed>>
    /\ UNCHANGED <<codecVars, filterVars>>

\* A refill that never looks at domain_iter again.
RefillNever(t) ==
    /\ tasks' = tasks \ {t}
    /\ UNCHANGED <<domain_iter, i, dispatched, assigned>>

\* A refill that waits until the pool has drained before it admits the next
\* domain.
RefillWhenDrained(t) ==
    IF domain_iter = {} \/ tasks # {t}
    THEN /\ tasks' = tasks \ {t}
         /\ UNCHANGED <<domain_iter, i, dispatched, assigned>>
    ELSE \E d \in domain_iter :
             /\ tasks' = (tasks \ {t}) \cup {Task(d, i % servers)}
             /\ domain_iter' = domain_iter \ {d}
             /\ dispatched' = dispatched (+) SetToBag({d})
             /\ assigned' = Append(assigned, i % servers)
             /\ i' = i + 1

\* A refill that indexes the endpoints by the number of lookups dispatched
\* so far, seeded ones included.
RefillByDispatchCount(t) ==
    IF domain_iter = {}
    THEN /\ tasks' = tasks \ {t}
         /\ UNCHANGED <<domain_iter, i, dispatched, assigned>>
    ELSE \E d \in domain_iter :
             /\ tasks' = (tasks \ {t}) \cup {Task(d, Len(assigned) % servers)}
             /\ domain_iter' = domain_iter \ {d}
             /\ dispatched' = dispatched (+) SetToBag({d})
             /\ assigned' = Append(assigned, Len(assigned) % servers)
             /\ i' = i + 1

\* `if let Some(next_domain) = domain_iter.next()`: the finished task leaves
\* the pool and the next domain, when there is one, enters it.
Refill(t) ==
    IF domain_iter = {}
    THEN /\ tasks' = tasks \ {t}
         /\ UNCHANGED <<domain_iter, i, dispatched, assigned>>
    ELSE \E d \in domain_iter :
             /\ tasks' = (tasks \ {t}) \cup {Task(d, i % servers)}
             /\ domain_iter' = domain_iter \ {d}
             /\ dispatched' = dispatched (+) SetToBag({d})
             /\ assigned' = Append(assigned, i % servers)
             /\ i' = i + 1

\* A loop that puts a failed lookup back into the pool instead of pulling
\* the next domain.
CompleteRetrying(t, res, io_ok) ==
    /\ pc = "loop"
    /\ t \in tasks
    /\ res \in get_dns_results(t.domain)
    /\ IF res.ok
       THEN /\ calls' = calls (+) SetToBag({LookupCall(res.val)})
            /\ error_count' = error_count
            /\ failed' = failed
            /\ IF io_ok
               THEN /\ wtr' = [wtr EXCEPT !.buf = @ \o to_string(res.val) \o <<NL>>]
                    /\ written' = written \o to_string(res.val) \o <<NL>>
                    /\ Refill(t)
                    /\ pc' = pc
               ELSE /\ pc' = "err"
                    /\ tasks' = {}
                    /\ UNCHANGED <<wtr, written, domain_iter, i, dispatched,
                                  assigned>>
       ELSE /\ io_ok
            /\ error_count' = error_count + 1
            /\ failed' = failed \cup {t.domain}
            /\ dispatched' = dispatched (+) SetToBag({t.domain})
            /\ assigned' = Append(assigned, t.server)
            /\ pc' = pc
            /\ UNCHANGED <<tasks, domain_iter, i, calls, wtr, written>>
    /\ UNCHANGED <<envVars, unread, domains, total_length, range_next>>
    /\ UNCHANGED <<codecVars, filterVars>>

\* A loop that carries on after a failed write to the cache file.
CompleteIgnoringWriteError(t, res, io_ok) ==
    /\ pc = "loop"
    /\ t \in tasks
    /\ res \in get_dns_results(t.domain)
    /\ IF res.ok
       THEN /\ calls' = calls (+) SetToBag({LookupCall(res.val)})
            /\ error_count' = error_count
            /\ failed' = failed
            /\ IF io_ok
               THEN /\ wtr' = [wtr EXCEPT !.buf = @ \o to_string(res.val) \o <<NL>>]
                    /\ written' = written \o to_string(res.val) \o <<NL>>
               ELSE UNCHANGED <<wtr, written>>
            /\ Refill(t)
            /\ pc' = pc
       ELSE /\ io_ok
            /\ error_count' = error_count + 1
            /\ failed' = failed \cup {t.domain}
            /\ Refill(t)
            /\ pc' = pc
            /\ UNCHANGED <<calls, wtr, written>>
    /\ UNCHANGED <<envVars, unread, domains, total_length, range_next>>
    /\ UNCHANGED <<codecVars, filterVars>>

\* One iteration of `while let Some(record) = tasks.next().await`: some task
\* of the pool completes with result `res`.  A success is given to the
\* callback and written to the buffered writer (a failed write returns the
\* error); a failure is counted.  Either way the pool is refilled.
Complete(t, res, io_ok) ==
    /\ pc = "loop"
    /\ t \in tasks
    /\ res \in get_dns_results(t.domain)
    /\ IF res.ok
       THEN /\ calls' = calls (+) SetToBag({LookupCall(res.val)})
            /\ error_count' = error_count
            /\ failed' = failed
            /\ IF io_ok
               THEN /\ wtr' = [wtr EXCEPT !.buf = @ \o to_string(res.val) \o <<NL>>]
                    /\ written' = written \o to_string(res.val) \o <<NL>>
                    /\ Refill(t)
                    /\ pc' = pc
               ELSE /\ pc' = "err"
                    /\ tasks' = {}
                    /\ UNCHANGED <<wtr, written, domain_iter, i, dispatched,
                                  assigned>>
       ELSE /\ io_ok
            /\ error_count' = error_count + 1
            /\ failed' = failed \cup {t.domain}
            /\ Refill(t)
            /\ pc' = pc
            /\ UNCHANGED <<calls, wtr, written>>
    /\ UNCHANGED <<envVars, unread, domains, total_length, range_next>>
    /\ UNCHANGED <<codecVars, filterVars>>

\* A return that forgets `wtr.flush()`: what the writer buffered never
\* reaches the file.
FinishWithoutFlush(io_ok) ==
    /\ pc = "loop"
    /\ tasks = {}
    /\ pc' = IF io_ok THEN "ok" ELSE "err"
    /\ UNCHANGED <<files, wtr>>
    /\ UNCHANGED <<clock, input, servers, run, prev, unread, domains, total_length,
                   domain_iter, range_next, tasks, i, error_count, obsVars>>
    /\ UNCHANGED <<codecVars, filterVars>>

\* The loop ends when the pool is empty; `wtr.flush().await?` then writes the
\* buffer to the file, and the function returns Ok(()).
Finish(io_ok) ==
    /\ pc = "loop"
    /\ tasks = {}
    /\ IF io_ok
       THEN /\ files' = [files EXCEPT ![wtr.path] =
                            [modified |-> clock,
                             content  |-> @.content \o wtr.buf]]
            /\ wtr' = [wtr EXCEPT !.buf = <<>>]
            /\ pc' = "ok"
       ELSE /\ pc' = "err"
            /\ UNCHANGED <<files, wtr>>
    /\ UNCHANGED <<clock, input, servers, run, prev, unread, domains, total_length,
                   domain_iter, range_next, tasks, i, error_count, obsVars>>
    /\ UNCHANGED <<codecVars, filterVars>>

\* The caller runs lookup_domains again on the same domains, `delta` seconds
\* after the run that just returned Ok.
Rerun(delta) ==
    /\ pc = "ok"
    /\ run = 1
    /\ run' = run + 1
    /\ clock' = clock + delta
    /\ prev' = [clock |-> clock, errors |-> error_count, wrote |-> wtr.path]
    /\ UNCHANGED <<files, input, servers>>
    /\ pc' = "read_dir"
    /\ unread' = DOMAIN files
    /\ domains' = input
    /\ total_length' = 0
    /\ domain_iter' = {}
    /\ range_next' = 0
    /\ tasks' = {}
    /\ i' = 0
    /\ error_count' = 0
    /\ wtr' = NoWriter
    /\ calls' = EmptyBag
    /\ dispatched' = EmptyBag
    /\ assigned' = <<>>
    /\ written' = <<>>
    /\ failed' = {}
    /\ UNCHANGED <<codecVars, filterVars>>

RECURSIVE EndsFrom(_, _)
\* The offsets in what a run wrote at which the records `recs`, written one
\* after the other from offset `start` on, each followed by a new-line, end.
EndsFrom(recs, start) ==
    IF recs = <<>> THEN <<>>
    ELSE <<start + Len(to_string(Head(recs)))>>
             \o EndsFrom(Tail(recs), start + Len(to_string(Head(recs))) + 1)

\* The records among `recs` whose text lies wholly within the first k bytes
\* of what the run wrote (the leading new-line is byte 1).
WrittenWithin(recs, k) ==
    LET ends == EndsFrom(recs, 1)
    IN  {recs[n] : n \in {m \in 1..Len(recs) : ends[m] <= k}}

\* The process is killed while lookups are being dispatched or awaited.  The
\* writer is never flushed by the program; of the bytes it was given, some
\* prefix of length k, which may end anywhere, has reached the file.  The
\* records the lookups returned and the ones wholly in that prefix are
\* remembered for the next run.
Interrupt(k) ==
    /\ pc \in {"seed", "loop"}
    /\ run = 1
    /\ k \in 0..Len(wtr.buf)
    /\ files' = [files EXCEPT ![wtr.path] =
                     [modified |-> IF k > 0 THEN clock ELSE @.modified,
                      content  |-> @.content \o SubSeq(wtr.buf, 1, k)]]
    /\ prev' = [clock |-> clock, errors |-> error_count, wrote |-> wtr.path,
                returned |-> {DNSResultRecord(c.domain, c.cnames, c.ips) :
                                 c \in {x \in BagToSet(calls) : x.from = "lookup"}},
                complete |-> WrittenWithin(CacheRecords(Tail(written)), k)]
    /\ pc' = "killed"
    /\ UNCHANGED <<clock, input, servers, run, unread, domains, total_length,
                   domain_iter, range_next, tasks, i, error_count, wtr,
                   obsVars>>
    /\ UNCHANGED <<codecVars, filterVars>>

\* lookup_domains is run again on the same domains after the interruption.
Restart ==
    /\ pc = "killed"
    /\ run' = run + 1
    /\ clock' = clock + 1
    /\ UNCHANGED <<files, input, servers, prev>>
    /\ pc' = "read_dir"
    /\ unread' = DOMAIN files
    /\ domains' = input
    /\ total_length' = 0
    /\ domain_iter' = {}
    /\ range_next' = 0
    /\ tasks' = {}
    /\ i' = 0
    /\ error_count' = 0
    /\ wtr' = NoWriter
    /\ calls' = EmptyBag
    /\ dispatched' = EmptyBag
    /\ assigned' = <<>>
    /\ written' = <<>>
    /\ failed' = {}
    /\ UNCHANGED <<codecVars, filterVars>>

RerunDelays == {0, MAX_AGE - 1}

ResolverInit ==
    /\ clock = StartTime
    /\ files \in InitialDirs
    /\ input \in SUBSET Universe
    /\ servers = NumServers
    /\ run = 1
    /\ prev = NoPrev
    /\ StartRun

ResolverNext ==
    \/ \E n \in unread : ReadEntry(n)
    \/ CheckPending
    \/ \E io_ok \in BOOLEAN : OpenWriter(io_ok)
    \/ SeedStep
    \/ \E t \in tasks, io_ok \in BOOLEAN :
          \E res \in get_dns_results(t.domain) : Complete(t, res, io_ok)
    \/ \E io_ok \in BOOLEAN : Finish(io_ok)
    \/ \E delta \in RerunDelays : Rerun(delta)

(***************************************************************************)
(* The codec on its own: a record is written as a cache line and the line  *)
(* is parsed back.                                                         *)
(***************************************************************************)
\* `parsed` before any line has been parsed.
Unparsed == [ok |-> FALSE, unparsed |-> TRUE]

\* The sequences over S of length at most n.
SeqsUpTo(S, n) == UNION {[1..k -> S] : k \in 0..n}

\* The records given to the codec: any domain, up to MaxListLen cnames and
\* up to MaxListLen ips, in any order and with repetitions.
Records ==
    {DNSResultRecord(d, cn, ip) :
        d \in Universe,
        cn \in SeqsUpTo(Universe, MaxListLen),
        ip \in SeqsUpTo(IpAddrs, MaxListLen)}

\* The two writes lookup_domains makes for a record: its to_string, then a
\* new-line.
WriteLine ==
    /\ rec \in Records
    /\ line = <<>>
    /\ line' = to_string(rec) \o <<NL>>
    /\ UNCHANGED <<rec, parsed>>
    /\ UNCHANGED <<resolverVars, filterVars>>

\* `line.parse::<DNSResultRecord>()` on a line read back by read_line.
ParseLine ==
    /\ line # <<>>
    /\ parsed = Unparsed
    /\ parsed' = from_str(line)
    /\ UNCHANGED <<rec, line>>
    /\ UNCHANGED <<resolverVars, filterVars>>

(***************************************************************************)
(* Option<bool>, the verdict of the filter.                                *)
(***************************************************************************)
Some(b) == [some |-> TRUE, val |-> b]
None == [some |-> FALSE]

(***************************************************************************)
(* Pattern rules (regex::Regex, regex::RegexSet).  Three patterns stand    *)
(* for the rules a list can hold: "." matches every domain, a letter       *)
(* matches the domains that contain it, "(" is not a regular expression.   *)
(***************************************************************************)
RegexPatterns == {<<".">>, <<"b">>, <<"(">>}

\* regex::Regex::new(re).is_ok()
RegexIsOk(re) == re # <<"(">>

\* Regex::is_match: an unanchored search.
RegexIsMatch(re, s) == \E k \in 1..Len(s) : re = <<".">> \/ <<s[k]>> = re

\* RegexSet::is_match: some pattern of the set matches.
RegexSetIsMatch(set, s) == \E re \in set : RegexIsMatch(re, s)

(***************************************************************************)
(* Ad-block rules (adblock::engine::Engine).  The rules of the model are   *)
(* the host-anchored block rule ||host^ and the exception rule @@||host^.  *)
(***************************************************************************)
BlockRule(host) == <<"|", "|">> \o host \o <<"^">>
ExceptionRule(host) == <<"@", "@">> \o BlockRule(host)
AdblockRules ==
    {BlockRule(d) : d \in Universe} \cup {ExceptionRule(d) : d \in Universe}

IsExceptionRule(rule) == Len(rule) >= 2 /\ SubSeq(rule, 1, 2) = <<"@", "@">>
\* The host a rule is anchored to.
RuleHost(rule) ==
    IF IsExceptionRule(rule)
    THEN SubSeq(rule, 5, Len(rule) - 1)
    ELSE SubSeq(rule, 3, Len(rule) - 1)
\* ||host^ matches the URL https://domain when domain is the host or one of
\* its subdomains.
RuleMatches(rule, domain) ==
    RuleHost(rule) = domain \/ RuleHost(rule) \in ParentDomains(domain)

\* Engine::check_network_urls("https://domain", "https://domain", ""): the
\* BlockerResult, of which the filter reads `matched` and `exception`.
\* Exception rules are consulted only when a block rule matched.  Whether
\* `matched` stays set once an exception was found differs between releases
\* of the crate, so both values are possible results.
check_network_urls(rules, domain) ==
    LET block == \E r \in rules : ~IsExceptionRule(r) /\ RuleMatches(r, domain)
        exc   == \E r \in rules : IsExceptionRule(r) /\ RuleMatches(r, domain)
    IN  IF block /\ exc
        THEN {[matched |-> m, exception |-> TRUE] : m \in BOOLEAN}
        ELSE {[matched |-> block, exception |-> FALSE]}

\* Every value of (matched, exception) a BlockerResult can hold.
BlockerResults == [matched : BOOLEAN, exception : BOOLEAN]

(***************************************************************************)
(* IP subnets (ipnet::IpNet): in the model the net of a first octet.       *)
(***************************************************************************)
IpNets == {<<x>> : x \in Octets}
\* IpNet::contains(&ip)
NetContains(net, ip) == ip[1] = net[1]

(***************************************************************************)
(* DomainFilterBuilder.                                                    *)
(***************************************************************************)
\* DomainFilterBuilder::new(): every set empty.
NewBuilder ==
    [allow_domains       |-> {}, disallow_domains    |-> {},
     allow_subdomains    |-> {}, disallow_subdomains |-> {},
     allow_ips           |-> {}, disallow_ips        |-> {},
     allow_ip_net        |-> {}, disallow_ip_net     |-> {},
     adblock             |-> {},
     allow_regex         |-> {}, disallow_regex      |-> {}]

\* A subdomain test that also takes the domain itself for one of its parents.
is_subdomain_of_list_or_self(domain, filter_list) ==
    \E part \in ParentDomains(domain) \cup {domain} : part \in filter_list

\* Some part of the domain's parents is in the list.
is_subdomain_of_list(domain, filter_list) ==
    \E part \in ParentDomains(domain) : part \in filter_list

\* An allow insertion that leaves the opposing set alone.
add_allow_domain_no_evict(b, domain) ==
    [b EXCEPT !.allow_domains = @ \cup {domain}]

add_allow_domain(b, domain) ==
    [b EXCEPT !.disallow_domains = @ \ {domain},
              !.allow_domains = @ \cup {domain}]

\* A disallow insertion with no rejection condition, like the one for ips.
add_disallow_domain_always(b, domain) ==
    [b EXCEPT !.disallow_domains = @ \cup {domain}]

add_disallow_domain(b, domain) ==
    IF /\ domain \notin b.allow_domains
       /\ ~is_subdomain_of_list(domain, b.allow_subdomains)
    THEN [b EXCEPT !.disallow_domains = @ \cup {domain}]
    ELSE b

add_allow_subdomain(b, domain) ==
    [b EXCEPT !.disallow_subdomains = @ \ {domain},
              !.allow_subdomains = @ \cup {domain}]

add_disallow_subdomain(b, domain) ==
    IF domain \notin b.allow_subdomains
    THEN [b EXCEPT !.disallow_subdomains = @ \cup {domain}]
    ELSE b

add_allow_ip_addr(b, ip) ==
    [b EXCEPT !.disallow_ips = @ \ {ip}, !.allow_ips = @ \cup {ip}]

\* A disallow insertion dropped for an allowed address, as for domains.
add_disallow_ip_addr_unless_allowed(b, ip) ==
    IF ip \notin b.allow_ips
    THEN [b EXCEPT !.disallow_ips = @ \cup {ip}]
    ELSE b

add_disallow_ip_addr(b, ip) ==
    [b EXCEPT !.disallow_ips = @ \cup {ip}]

add_allow_ip_subnet(b, net) ==
    [b EXCEPT !.disallow_ip_net = @ \ {net}, !.allow_ip_net = @ \cup {net}]

add_disallow_ip_subnet(b, net) ==
    [b EXCEPT !.disallow_ip_net = @ \cup {net}]

add_adblock_rule(b, rule) ==
    [b EXCEPT !.adblock = @ \cup {rule}]

add_allow_regex(b, re) ==
    IF RegexIsOk(re) THEN [b EXCEPT !.allow_regex = @ \cup {re}] ELSE b

add_disallow_regex(b, re) ==
    IF RegexIsOk(re) THEN [b EXCEPT !.disallow_regex = @ \cup {re}] ELSE b

\* The engine is a snapshot of the builder's sets, the pattern sets and the
\* ad-block rules compiled.
to_domain_filter(b) ==
    [allow_domains       |-> b.allow_domains,
     disallow_domains    |-> b.disallow_domains,
     allow_subdomains    |-> b.allow_subdomains,
     disallow_subdomains |-> b.disallow_subdomains,
     allow_ips           |-> b.allow_ips,
     disallow_ips        |-> b.disallow_ips,
     allow_ip_net        |-> b.allow_ip_net,
     disallow_ip_net     |-> b.disallow_ip_net,
     adblock             |-> b.adblock,
     allow_regex         |-> b.allow_regex,
     disallow_regex      |-> b.disallow_regex]

(***************************************************************************)
(* DomainFilter.                                                           *)
(***************************************************************************)
\* A decision that tries the deny conditions before the ad-block exception.
domain_is_allowed_deny_first(f, domain, blocker_result) ==
    IF \/ domain \in f.allow_domains
       \/ is_subdomain_of_list(domain, f.allow_subdomains)
       \/ RegexSetIsMatch(f.allow_regex, domain)
    THEN Some(TRUE)
    ELSE IF \/ blocker_result.matched
            \/ domain \in f.disallow_domains
            \/ is_subdomain_of_list(domain, f.disallow_subdomains)
            \/ RegexSetIsMatch(f.disallow_regex, domain)
    THEN Some(FALSE)
    ELSE IF blocker_result.exception
    THEN Some(TRUE)
    ELSE None

\* A decision that lets a disallowed exact domain win over the allow rules.
domain_is_allowed_exact_deny_wins(f, domain, blocker_result) ==
    IF domain \in f.disallow_domains \/ RegexSetIsMatch(f.disallow_regex, domain)
    THEN Some(FALSE)
    ELSE IF \/ domain \in f.allow_domains
            \/ is_subdomain_of_list(domain, f.allow_subdomains)
            \/ RegexSetIsMatch(f.allow_regex, domain)
    THEN Some(TRUE)
    ELSE IF blocker_result.exception
    THEN Some(TRUE)
    ELSE IF \/ blocker_result.matched
            \/ is_subdomain_of_list(domain, f.disallow_subdomains)
    THEN Some(FALSE)
    ELSE None

\* DomainFilter::domain_is_allowed, given the result the ad-block engine
\* returned for the domain's URL.
domain_is_allowed(f, domain, blocker_result) ==
    IF \/ domain \in f.allow_domains
       \/ is_subdomain_of_list(domain, f.allow_subdomains)
       \/ RegexSetIsMatch(f.allow_regex, domain)
    THEN Some(TRUE)
    ELSE IF blocker_result.exception
    THEN Some(TRUE)
    ELSE IF \/ blocker_result.matched
            \/ domain \in f.disallow_domains
            \/ is_subdomain_of_list(domain, f.disallow_subdomains)
            \/ RegexSetIsMatch(f.disallow_regex, domain)
    THEN Some(FALSE)
    ELSE None

\* A decision for addresses that tries the disallow rules first.
ip_is_allowed_deny_first(f, ip) ==
    IF \/ ip \in f.disallow_ips
       \/ \E net \in f.disallow_ip_net : NetContains(net, ip)
    THEN Some(FALSE)
    ELSE IF ip \in f.allow_ips \/ \E net \in f.allow_ip_net : NetContains(net, ip)
    THEN Some(TRUE)
    ELSE None

\* DomainFilter::ip_is_allowed
ip_is_allowed(f, ip) ==
    IF ip \in f.allow_ips \/ \E net \in f.allow_ip_net : NetContains(net, ip)
    THEN Some(TRUE)
    ELSE IF \/ ip \in f.disallow_ips
            \/ \E net \in f.disallow_ip_net : NetContains(net, ip)
    THEN Some(FALSE)
    ELSE None

\* `cnames.iter().any(|cname| self.domain_is_allowed(cname) == Some(false))`
AnyCnameDisallowed(f, cnames) ==
    \E k \in 1..Len(cnames) :
        \E r \in check_network_urls(f.adblock, cnames[k]) :
            domain_is_allowed(f, cnames[k], r) = Some(FALSE)

\* A combination that looks at the ips before the domain's own verdict.
allowed_ips_first(f, domain, cnames, ips, blocker_result) ==
    IF \E k \in 1..Len(ips) : ip_is_allowed(f, ips[k]) = Some(FALSE)
    THEN Some(FALSE)
    ELSE IF domain_is_allowed(f, domain, blocker_result).some
    THEN domain_is_allowed(f, domain, blocker_result)
    ELSE IF AnyCnameDisallowed(f, cnames)
    THEN Some(FALSE)
    ELSE None

\* DomainFilter::allowed, given the ad-block result for the domain itself.
allowed(f, domain, cnames, ips, blocker_result) ==
    IF domain_is_allowed(f, domain, blocker_result).some
    THEN domain_is_allowed(f, domain, blocker_result)
    ELSE IF AnyCnameDisallowed(f, cnames)
    THEN Some(FALSE)
    ELSE IF \E k \in 1..Len(ips) : ip_is_allowed(f, ips[k]) = Some(FALSE)
    THEN Some(FALSE)
    ELSE None

(***************************************************************************)
(* A builder is filled by at most MaxInserts calls, compiled, and the      *)
(* engine is then asked about domains.                                     *)
(***************************************************************************)
NoFilter == [compiled |-> FALSE]
NoQuery == [asked |-> FALSE]
Building == filter = NoFilter /\ inserts < MaxInserts

\* What a call of a builder method does to the state: it leaves builder b.
BuilderCall(b) ==
    /\ builder' = b
    /\ inserts' = inserts + 1
    /\ UNCHANGED <<filter, query, verdict, ops>>
    /\ UNCHANGED <<resolverVars, codecVars>>

AddAllowDomain(d) ==
    /\ Building
    /\ BuilderCall(add_allow_domain(builder, d))
AddDisallowDomain(d) ==
    /\ Building
    /\ BuilderCall(add_disallow_domain(builder, d))
AddAllowSubdomain(d) ==
    /\ Building
    /\ BuilderCall(add_allow_subdomain(builder, d))
AddDisallowSubdomain(d) ==
    /\ Building
    /\ BuilderCall(add_disallow_subdomain(builder, d))
AddAllowIpAddr(ip) ==
    /\ Building
    /\ BuilderCall(add_allow_ip_addr(builder, ip))
AddDisallowIpAddr(ip) ==
    /\ Building
    /\ BuilderCall(add_disallow_ip_addr(builder, ip))
AddAllowIpSubnet(net) ==
    /\ Building
    /\ BuilderCall(add_allow_ip_subnet(builder, net))
AddDisallowIpSubnet(net) ==
    /\ Building
    /\ BuilderCall(add_disallow_ip_subnet(builder, net))
AddAdblockRule(rule) ==
    /\ Building
    /\ BuilderCall(add_adblock_rule(builder, rule))
AddAllowRegex(re) ==
    /\ Building
    /\ BuilderCall(add_allow_regex(builder, re))
AddDisallowRegex(re) ==
    /\ Building
    /\ BuilderCall(add_disallow_regex(builder, re))

(***************************************************************************)
(* A builder filled by a recorded sequence of calls.                       *)
(***************************************************************************)
\* One call of a builder method: its name and its argument.
Op(method, arg) == [method |-> method, arg |-> arg]

\* The call `op` made on builder b.
Apply(b, op) ==
    CASE op.method = "add_allow_domain"       -> add_allow_domain(b, op.arg)
      [] op.method = "add_disallow_domain"    -> add_disallow_domain(b, op.arg)
      [] op.method = "add_allow_subdomain"    -> add_allow_subdomain(b, op.arg)
      [] op.method = "add_disallow_subdomain" -> add_disallow_subdomain(b, op.arg)
      [] op.method = "add_allow_ip_addr"      -> add_allow_ip_addr(b, op.arg)
      [] op.method = "add_disallow_ip_addr"   -> add_disallow_ip_addr(b, op.arg)
      [] op.method = "add_allow_ip_subnet"    -> add_allow_ip_subnet(b, op.arg)
      [] op.method = "add_disallow_ip_subnet" -> add_disallow_ip_subnet(b, op.arg)
      [] op.method = "add_allow_regex"        -> add_allow_regex(b, op.arg)
      [] op.method = "add_disallow_regex"     -> add_disallow_regex(b, op.arg)

\* The calls on addresses and subnets.
IpOps ==
    {Op(m, ip) : m \in {"add_allow_ip_addr", "add_disallow_ip_addr"},
                 ip \in {<<0, 1>>, <<1, 0>>}}
    \cup {Op(m, net) : m \in {"add_allow_ip_subnet", "add_disallow_ip_subnet"},
                       net \in IpNets}

\* The calls on exact domains, subdomains, addresses, subnets and patterns
\* whose order is varied: a name and its parent, an address and the subnet
\* that holds it, a pattern and a text that is no pattern.
OrderOps ==
    {Op(m, d) : m \in {"add_allow_domain", "add_disallow_domain",
                       "add_allow_subdomain", "add_disallow_subdomain"},
                d \in {DomainOf(1), DomainOf(2)}}
    \cup {Op(m, <<0, 1>>) : m \in {"add_allow_ip_addr", "add_disallow_ip_addr"}}
    \cup {Op(m, <<0>>) : m \in {"add_allow_ip_subnet", "add_disallow_ip_subnet"}}
    \cup {Op(m, re) : m \in {"add_allow_regex", "add_disallow_regex"},
                      re \in {<<"b">>, <<"(">>}}

RECURSIVE Build(_)
\* The builder left by the calls of `seq` made in order on a new builder.
Build(seq) ==
    IF seq = <<>> THEN NewBuilder
    ELSE Apply(Build(SubSeq(seq, 1, Len(seq) - 1)), seq[Len(seq)])

\* The builder receives call `op`, which is recorded.
Insert(op) ==
    /\ Len(ops) < MaxOps
    /\ builder' = Apply(builder, op)
    /\ ops' = Append(ops, op)
    /\ inserts' = inserts + 1
    /\ UNCHANGED <<filter, query, verdict>>
    /\ UNCHANGED <<resolverVars, codecVars>>

\* builder.to_domain_filter()
Compile ==
    /\ filter = NoFilter
    /\ filter' = [compiled |-> TRUE, engine |-> to_domain_filter(builder)]
    /\ UNCHANGED <<builder, inserts, query, verdict, ops>>
    /\ UNCHANGED <<resolverVars, codecVars>>

\* The resolutions the engine is asked about: a domain with at most one
\* cname and at most one ip.
QueryCnames == SeqsUpTo(Universe, 1)
QueryIps == SeqsUpTo({<<0, 1>>, <<1, 0>>}, 1)

\* filter.allowed(&domain, &cnames, &ips); the domain's own verdict
\* (domain_is_allowed) is kept beside the combined one.  The engine is
\* immutable, so one question per behaviour shows all it can answer.
Ask(domain, cnames, ips, blocker_result) ==
    /\ filter # NoFilter
    /\ query = NoQuery
    /\ blocker_result \in check_network_urls(filter.engine.adblock, domain)
    /\ query' = [asked |-> TRUE, domain |-> domain, cnames |-> cnames,
                 ips |-> ips, blocker_result |-> blocker_result]
    /\ verdict' =
          [domain  |-> domain_is_allowed(filter.engine, domain, blocker_result),
           allowed |-> allowed(filter.engine, domain, cnames, ips, blocker_result)]
    /\ UNCHANGED <<builder, inserts, filter, ops>>
    /\ UNCHANGED <<resolverVars, codecVars>>

NoVerdict == [domain |-> None, allowed |-> None]

(***************************************************************************)
(* The three specifications: the resolver, the codec, the filter.  In each *)
(* the variables of the other two parts rest at their idle values.         *)
(***************************************************************************)
ResolverIdle ==
    /\ clock = 0 /\ files = <<>> /\ input = {} /\ run = 0 /\ prev = NoPrev
    /\ servers = 0
    /\ pc = "idle" /\ unread = {} /\ domains = {} /\ total_length = 0
    /\ domain_iter = {} /\ range_next = 0 /\ tasks = {} /\ i = 0
    /\ error_count = 0 /\ wtr = NoWriter
    /\ calls = EmptyBag /\ dispatched = EmptyBag /\ written = <<>>
    /\ assigned = <<>>
    /\ failed = {}
CodecIdle == rec = <<>> /\ line = <<>> /\ parsed = Unparsed
FilterIdle ==
    /\ builder = NewBuilder /\ inserts = 0
    /\ filter = NoFilter /\ query = NoQuery /\ verdict = NoVerdict
    /\ ops = <<>>

Init == ResolverInit /\ CodecIdle /\ FilterIdle
Next == ResolverNext
Spec == Init /\ [][Next]_vars

\* A single run of lookup_domains.
RunNext ==
    \/ \E n \in unread : ReadEntry(n)
    \/ CheckPending
    \/ \E io_ok \in BOOLEAN : OpenWriter(io_ok)
    \/ SeedStep
    \/ \E t \in tasks, io_ok \in BOOLEAN :
          \E res \in get_dns_results(t.domain) : Complete(t, res, io_ok)
    \/ \E io_ok \in BOOLEAN : Finish(io_ok)

\* The directory loop goes on while read_dir has entries left.  This is weak
\* fairness of the ReadEntry steps with their enabling condition written
\* out: such a step changes `unread`, so it is possible exactly when the
\* function is in the loop and an entry is left.
ReadDirFair ==
    \/ []<>(~(pc = "read_dir" /\ unread # {}))
    \/ []<><<\E n \in unread : ReadEntry(n)>>_vars

\* The function takes its next step, and every lookup in the pool completes
\* sooner or later (FuturesUnordered polls every future it holds).
RunFair ==
    /\ ReadDirFair
    /\ WF_vars(CheckPending)
    /\ WF_vars(\E io_ok \in BOOLEAN : OpenWriter(io_ok))
    /\ WF_vars(SeedStep)
    /\ \A d \in Universe :
          WF_vars(\E t \in tasks, io_ok \in BOOLEAN :
                     \E res \in get_dns_results(t.domain) :
                         t.domain = d /\ Complete(t, res, io_ok))
    /\ WF_vars(\E io_ok \in BOOLEAN : Finish(io_ok))

LiveSpec == Init /\ [][RunNext]_vars /\ RunFair

\* A run over NumLookups domains, none of them cached, with any number of
\* endpoints from one to NumServers; the directory holds one expired file.
DispatchDomains == {DomainOf(k) : k \in 1..NumLookups}
ExpiredDir ==
    Today(StartTime - MAX_AGE) :>
        [modified |-> StartTime - MAX_AGE, content |-> <<NL>>]
DispatchInit ==
    /\ clock = StartTime
    /\ files = ExpiredDir
    /\ input = DispatchDomains
    /\ servers \in 1..NumServers
    /\ run = 1
    /\ prev = NoPrev
    /\ StartRun
    /\ CodecIdle /\ FilterIdle
SpecDispatch == DispatchInit /\ [][RunNext]_vars

\* A run over a window's worth of domains from an empty cache directory
\* that may be interrupted, followed by a second run.
CrashInput == {DomainOf(k) : k \in 1..WindowSize}
CrashInit ==
    /\ clock = StartTime
    /\ files = <<>>
    /\ input = CrashInput
    /\ servers = NumServers
    /\ run = 1
    /\ prev = NoPrev
    /\ StartRun
    /\ CodecIdle /\ FilterIdle
CrashNext ==
    \/ RunNext
    \/ \E k \in 0..Len(wtr.buf) : Interrupt(k)
    \/ Restart
SpecCrash == CrashInit /\ [][CrashNext]_vars

CodecInit ==
    /\ ResolverIdle /\ FilterIdle
    /\ rec \in Records /\ line = <<>> /\ parsed = Unparsed
CodecNext == WriteLine \/ ParseLine
SpecCodec == CodecInit /\ [][CodecNext]_vars

FilterInit == ResolverIdle /\ CodecIdle /\ FilterIdle
FilterNext ==
    \/ \E d \in Universe : AddAllowDomain(d)
    \/ \E d \in Universe : AddDisallowDomain(d)
    \/ \E d \in Universe : AddAllowSubdomain(d)
    \/ \E d \in Universe : AddDisallowSubdomain(d)
    \/ \E ip \in IpAddrs : AddAllowIpAddr(ip)
    \/ \E ip \in IpAddrs : AddDisallowIpAddr(ip)
    \/ \E net \in IpNets : AddAllowIpSubnet(net)
    \/ \E net \in IpNets : AddDisallowIpSubnet(net)
    \/ \E rule \in AdblockRules : AddAdblockRule(rule)
    \/ \E re \in RegexPatterns : AddAllowRegex(re)
    \/ \E re \in RegexPatterns : AddDisallowRegex(re)
    \/ Compile
    \/ \E d \in Universe, cnames \in QueryCnames, ips \in QueryIps :
          \E r \in BlockerResults : Ask(d, cnames, ips, r)
SpecFilter == FilterInit /\ [][FilterNext]_vars

\* Sequences of calls of every kind but the ad-block rules.
OrderNext == \E op \in OrderOps : Insert(op)
SpecOrder == FilterInit /\ [][OrderNext]_vars

\* Sequences of calls on addresses and subnets.
IpNext == \E op \in IpOps : Insert(op)
SpecIp == FilterInit /\ [][IpNext]_vars

(***************************************************************************)
(* Properties of lookup_domains.                                           *)
(***************************************************************************)
\* Number of callback invocations made for domain d in this run.
CallsFor(d) ==
    BagCardinality([c \in {x \in BagToSet(calls) : x.domain = d} |->
                       CopiesIn(c, calls)])
\* The callback invocations made from lookups, and from cache file n.
LookupCalls == {c \in BagToSet(calls) : c.from = "lookup"}
CallsFrom(n) == {c \in BagToSet(calls) : c.from = "cache" /\ c.file = n}
\* The age of cache file n: now minus its modification time.
Age(n) == clock - files[n].modified
\* The directory entries the loop over read_dir has already handled.
Loaded == DOMAIN files \ unread
FileRecords(n) == CacheRecords(files[n].content)

\* C1: at every moment of a run, whatever the order in which lookups
\* complete and whether they succeed or fail, the number of lookups in the
\* pool is at most the window size.
C1_OutstandingWithinWindow == Cardinality(tasks) <= WindowSize

\* The pool is full again after a lookup completed, with a failure or with
\* a success, and the refill put the next domain in its place.
C1_Witness ==
    /\ pc = "loop"
    /\ Cardinality(tasks) = WindowSize
    /\ i > 0
    /\ domain_iter = {}
    /\ error_count + Cardinality(LookupCalls) = 1

\* C2: in one run the callback is invoked at most once for a domain, only
\* for domains of the input set, and once the run has returned Ok exactly
\* once for every input domain that a fresh cache file held or whose lookup
\* succeeded.
C2_CallbackOncePerInputDomain ==
    /\ \A c \in BagToSet(calls) : c.domain \in input /\ CallsFor(c.domain) = 1
    /\ pc = "ok" =>
          \A d \in input :
              (d \notin domains \/ \E c \in LookupCalls : c.domain = d)
                  => CallsFor(d) = 1

\* The first run returned Ok with no failed lookup.
FirstRunClean == run = 2 /\ prev.errors = 0
\* The first run wrote a cache file, and that file is still fresh.
WrittenFileFresh ==
    /\ prev.wrote \in DOMAIN files
    /\ IsFresh(files[prev.wrote].modified, clock)
\* Every file that was fresh (so was read) in the first run is fresh now.
ReadFilesFresh ==
    \A n \in DOMAIN files :
        IsFresh(files[n].modified, prev.clock) => IsFresh(files[n].modified, clock)
\* The re-run dispatches nothing: once the directory is read it has no
\* pending domain left, it never opens a writer, and when it has returned
\* the callback was given a cache record of every input domain.
NothingToLookUp ==
    /\ dispatched = EmptyBag
    /\ (pc = "read_dir" /\ unread = {}) => domains = {}
    /\ pc \in {"read_dir", "ok"}
    /\ pc = "ok" =>
          \A d \in input :
              \E c \in BagToSet(calls) : c.from = "cache" /\ c.domain = d

\* C3 as claimed: after a first run without failed lookups, a re-run on the
\* same domains, made while the file the first run wrote is younger than
\* MAX_AGE, dispatches no lookup and finds every domain in the cache.
C3_RerunDispatchesNothing ==
    (FirstRunClean /\ WrittenFileFresh) => NothingToLookUp

\* C3 as amended: the same, provided that every cache file that was fresh
\* during the first run (the file it wrote included) is still younger than
\* MAX_AGE at the re-run.
C3_RerunWithCacheStillFresh ==
    (FirstRunClean /\ ReadFilesFresh) => NothingToLookUp

\* A re-run that returned Ok without a lookup, MAX_AGE - 1 seconds after a
\* first run that resolved two or more domains, one with an empty answer.
C3_Witness ==
    /\ FirstRunClean /\ WrittenFileFresh /\ ReadFilesFresh
    /\ pc = "ok"
    /\ clock - prev.clock = MAX_AGE - 1
    /\ Cardinality(input) >= 2
    /\ dispatched = EmptyBag
    /\ \E c \in CallsFrom(prev.wrote) : c.cnames = <<>> /\ c.ips = <<>>
    /\ \E c \in CallsFrom(prev.wrote) : c.cnames # <<>>

\* The records `recs` parsed back from what the run wrote are as many as the
\* input domains, and are the records the callback was given from lookups.
WrittenMatchesCalls(recs) ==
    /\ Len(recs) = Cardinality(input)
    /\ BagOfSeq([k \in 1..Len(recs) |-> LookupCall(recs[k])])
          = [c \in LookupCalls |-> CopiesIn(c, calls)]

\* C4: a run in which no cache record matched an input domain dispatches
\* every input domain exactly once; when it has returned Ok with no failed
\* lookup it has made as many callback invocations and written as many
\* cache records as there are input domains, each with the data its lookup
\* returned.
C4_EveryDomainLookedUpOnce ==
    (pc = "ok" /\ domains = input) =>
        /\ dispatched = SetToBag(input)
        /\ error_count = 0 =>
              /\ BagCardinality(calls) = Cardinality(input)
              /\ WrittenMatchesCalls(CacheRecords(written))

\* The file of the run's writer ends with everything the run wrote.
Flushed ==
    wtr.path # -1 =>
        /\ wtr.buf = <<>>
        /\ Len(files[wtr.path].content) >= Len(written)
        /\ SubSeq(files[wtr.path].content,
                  Len(files[wtr.path].content) - Len(written) + 1,
                  Len(files[wtr.path].content)) = written

\* C5: a run whose cache I/O never fails eventually returns Ok, and a run
\* has returned Ok only with an empty pool, every pending domain
\* dispatched, and the writer flushed.
C5_TerminatesFlushed ==
    /\ [](pc # "err") => <>(pc = "ok")
    /\ [](pc = "ok" =>
            /\ tasks = {}
            /\ domain_iter = {}
            /\ BagToSet(dispatched) = domains
            /\ Flushed)

\* A run has returned Ok after looking up more domains than the window
\* holds, with failures and successes among them.
C5_Witness ==
    /\ pc = "ok"
    /\ total_length > WindowSize
    /\ error_count > 0
    /\ LookupCalls # {}
    /\ Flushed /\ wtr.path # -1

C7_RoundTrip == parsed # Unparsed => parsed = [ok |-> TRUE, val |-> rec]

\* A line has been parsed back into a record of two different cnames and
\* two different ips.
C7_Witness ==
    /\ parsed # Unparsed
    /\ parsed.ok
    /\ Len(rec.cnames) = 2 /\ rec.cnames[1] # rec.cnames[2]
    /\ Len(rec.ips) = 2 /\ rec.ips[1] # rec.ips[2]

(***************************************************************************)
(* Properties of the filter builder and of the filter.                     *)
(***************************************************************************)
\* C8: after any sequence of builder calls the allowed and the disallowed
\* exact domains are disjoint, and so are the allowed and the disallowed
\* subdomains; from any such builder, allowing a value leaves it allowed
\* and not disallowed, and disallowing a value that is allowed changes
\* nothing.
C8_AllowDisallowDisjoint ==
    /\ builder.allow_domains \cap builder.disallow_domains = {}
    /\ builder.allow_subdomains \cap builder.disallow_subdomains = {}
    /\ \A d \in Universe :
          /\ d \in add_allow_domain(builder, d).allow_domains
          /\ d \notin add_allow_domain(builder, d).disallow_domains
          /\ d \in add_allow_subdomain(builder, d).allow_subdomains
          /\ d \notin add_allow_subdomain(builder, d).disallow_subdomains
          /\ d \in builder.allow_domains =>
                add_disallow_domain(builder, d) = builder
          /\ d \in builder.allow_subdomains =>
                add_disallow_subdomain(builder, d) = builder

\* Two or more calls were made on the builder, and all they left is one
\* allowed exact domain: a disallow call for it was evicted or dropped.
C8_Witness ==
    /\ inserts >= 2
    /\ builder = [NewBuilder EXCEPT !.allow_domains = {DomainOf(2)}]

\* The allow conditions of the first step of the decision for domain d.
Step1Allow(f, d) ==
    \/ d \in f.allow_domains
    \/ ParentDomains(d) \cap f.allow_subdomains # {}
    \/ \E re \in f.allow_regex : RegexIsMatch(re, d)

\* The deny conditions for domain d, `res` being the ad-block result.
DenyCondition(f, d, res) ==
    \/ res.matched
    \/ d \in f.disallow_domains
    \/ ParentDomains(d) \cap f.disallow_subdomains # {}
    \/ \E re \in f.disallow_regex : RegexIsMatch(re, d)

\* C9: whatever builder the engine was compiled from, a domain that is an
\* allowed exact domain, or has a proper ancestor among the allowed
\* subdomains, or matches an allow pattern, gets the verdict allowed,
\* whatever deny condition it satisfies as well.
C9_AllowFirst ==
    query.asked =>
        (Step1Allow(filter.engine, query.domain) => verdict.domain = Some(TRUE))

\* The domain asked has an ancestor among the allowed subdomains and also
\* satisfies a deny condition, and the verdict was allowed.
C9_Witness ==
    /\ query.asked
    /\ ParentDomains(query.domain) \cap filter.engine.allow_subdomains # {}
    /\ DenyCondition(filter.engine, query.domain, query.blocker_result)
    /\ verdict.domain = Some(TRUE)

StrictlyBelow(q, d) ==
    /\ Len(q) > Len(d) + 1
    /\ SubSeq(q, Len(q) - Len(d) + 1, Len(q)) = d
    /\ q[Len(q) - Len(d)] = "."

\* The engine holds one rule only: the disallowed subdomain d.
OnlyDisallowSubdomain(d) ==
    /\ filter # NoFilter
    /\ filter.engine = [NewBuilder EXCEPT !.disallow_subdomains = {d}]

\* C11: in an engine whose only rule is the disallowed subdomain d, every
\* name strictly below d gets the verdict blocked, and d itself (like any
\* name not below d) gets the verdict unknown.
C11_SubdomainRuleSparesTheDomain ==
    \A d \in Universe :
        (query.asked /\ OnlyDisallowSubdomain(d)) =>
            IF StrictlyBelow(query.domain, d)
            THEN verdict.domain = Some(FALSE)
            ELSE verdict.domain = None

\* The engine's only rule disallows the subdomains of "b.a"; "c.b.a" was
\* asked about and blocked.
C11_Witness ==
    /\ query.asked
    /\ OnlyDisallowSubdomain(DomainOf(2))
    /\ query.domain = DomainOf(3)
    /\ verdict.domain = Some(FALSE)

\* The verdict of name d on its own is blocked: no allow condition holds,
\* the ad-block engine reports no exception, and a deny condition holds.
DomainVerdictBlocked(f, d) ==
    /\ ~Step1Allow(f, d)
    /\ \E r \in check_network_urls(f.adblock, d) :
          ~r.exception /\ DenyCondition(f, d, r)

\* The verdict of address ip is allowed / blocked: allow rules (exact or
\* subnet) come first, then the disallow rules.
IpVerdictAllowed(f, ip) ==
    ip \in f.allow_ips \/ \E net \in f.allow_ip_net : NetContains(net, ip)
IpVerdictBlocked(f, ip) ==
    /\ ~IpVerdictAllowed(f, ip)
    /\ ip \in f.disallow_ips \/ \E net \in f.disallow_ip_net : NetContains(net, ip)

\* C12: the combined verdict is the domain's own verdict whenever that is
\* allowed or blocked, whatever the cnames and ips; when the domain's own
\* verdict is unknown, it is blocked if some cname's verdict or some ip's
\* verdict is blocked, and unknown otherwise (never allowed).
C12_CombinedVerdict ==
    query.asked =>
        IF verdict.domain # None
        THEN verdict.allowed = verdict.domain
        ELSE IF \/ \E k \in 1..Len(query.cnames) :
                      DomainVerdictBlocked(filter.engine, query.cnames[k])
                \/ \E k \in 1..Len(query.ips) :
                      IpVerdictBlocked(filter.engine, query.ips[k])
        THEN verdict.allowed = Some(FALSE)
        ELSE verdict.allowed = None

\* A blocked domain was asked about together with an allowed ip, and the
\* combined verdict stayed blocked.
C12_Witness ==
    /\ query.asked
    /\ verdict.domain = Some(FALSE)
    /\ \E k \in 1..Len(query.ips) : IpVerdictAllowed(filter.engine, query.ips[k])
    /\ verdict.allowed = Some(FALSE)

(***************************************************************************)
(* Further properties of lookup_domains.                                   *)
(***************************************************************************)
\* Every failed lookup was counted; its domain got no callback and no
\* record, was dispatched once, and is neither waiting nor in flight.
FailedAreLeftAlone ==
    /\ error_count = Cardinality(failed)
    /\ \A d \in failed :
          /\ CallsFor(d) = 0
          /\ d \notin RecordDomains(CacheRecords(written))
          /\ CopiesIn(d, dispatched) = 1
          /\ d \notin domain_iter
          /\ \A t \in tasks : t.domain # d

\* A step in which a lookup fails leaves the function in its loop, invokes
\* no callback, writes nothing, and admits one pending domain when there is
\* one.
FailureStepIsLocal ==
    failed' # failed =>
        /\ pc = "loop" /\ pc' = "loop"
        /\ calls' = calls /\ written' = written /\ wtr' = wtr
        /\ error_count' = error_count + 1
        /\ IF domain_iter = {}
           THEN /\ Cardinality(tasks') = Cardinality(tasks) - 1
                /\ dispatched' = dispatched
           ELSE /\ Cardinality(tasks') = Cardinality(tasks)
                /\ \E d \in domain_iter :
                      /\ domain_iter' = domain_iter \ {d}
                      /\ dispatched' = dispatched (+) SetToBag({d})

\* C13: a failed lookup is counted, gives its domain no callback and no
\* cache record, is not dispatched again, still admits the next pending
\* domain, and does not keep the run from returning Ok (cache I/O not
\* failing).
C13_FailedLookupIsLocal ==
    /\ []FailedAreLeftAlone
    /\ [][FailureStepIsLocal]_vars
    /\ [](pc # "err") => [](failed # {} => <>(pc = "ok"))

\* Every lookup of a run with more domains than the window failed, and the
\* run returned Ok.
C13_Witness ==
    /\ pc = "ok"
    /\ failed = input
    /\ Cardinality(input) > WindowSize
    /\ error_count = Cardinality(input)

\* A step in which the open of today's file (or the write of its first
\* new-line), the write of a record, or the final flush fails.
IoFailure ==
    \/ OpenWriter(FALSE)
    \/ \E t \in tasks : \E res \in get_dns_results(t.domain) : Complete(t, res, FALSE)
    \/ Finish(FALSE)

\* What such a step leaves behind: the function has returned the error, no
\* lookup is in flight, and the step itself dispatched nothing and wrote
\* nothing, neither to the writer nor to the file.
AbortsOnIoFailure ==
    IoFailure =>
        /\ pc' = "err"
        /\ tasks' = {}
        /\ UNCHANGED <<dispatched, written, wtr, files>>

\* Once the error is returned nothing happens any more.
NothingAfterError ==
    pc = "err" => UNCHANGED <<pc, calls, dispatched, written, wtr, files, tasks>>

\* C14: when the open of today's cache file, a write to it or its flush
\* fails, lookup_domains returns an error, and from the failure on no lookup
\* is dispatched, no callback is invoked and no record is written.
C14_IoFailureAborts ==
    /\ [][AbortsOnIoFailure]_vars
    /\ [][NothingAfterError]_vars
    /\ [](pc = "err" => tasks = {})

\* The write of the first record failed while lookups were in flight and
\* domains were still waiting to be dispatched.
C14_Witness ==
    /\ pc = "err"
    /\ domain_iter # {}
    /\ BagCardinality(dispatched) = WindowSize
    /\ LookupCalls # {}
    /\ written = <<NL>>

\* A completion after which the loop goes on: a task left the pool and the
\* function did not return.
CompletionHandled ==
    /\ pc = "loop" /\ pc' = "loop"
    /\ \E t \in tasks : t \notin tasks'

\* Such a completion admits exactly one new lookup when an undispatched
\* domain is left, and none when there is none.
AdmitsOnePerCompletion ==
    CompletionHandled =>
        IF domain_iter # {}
        THEN /\ BagCardinality(dispatched') = BagCardinality(dispatched) + 1
             /\ Cardinality(domain_iter') = Cardinality(domain_iter) - 1
             /\ Cardinality(tasks') = Cardinality(tasks)
        ELSE /\ dispatched' = dispatched
             /\ domain_iter' = {}
             /\ Cardinality(tasks') = Cardinality(tasks) - 1

\* While the loop waits with undispatched domains left, the pool is full.
PoolFullWhilePending ==
    (pc = "loop" /\ domain_iter # {}) => Cardinality(tasks) = WindowSize

\* C15: every completion the loop handles, a success or a failure, admits
\* exactly one new lookup while undispatched domains remain and none
\* afterwards; so whenever the loop waits for a completion and undispatched
\* domains remain, the number of lookups in flight is the window size.
C15_PullRefill ==
    /\ [][AdmitsOnePerCompletion]_vars
    /\ []PoolFullWhilePending

\* The loop waits for a completion with a full pool and a domain left over.
C15_Witness ==
    /\ pc = "loop"
    /\ domain_iter # {}
    /\ Cardinality(tasks) = WindowSize
    /\ BagCardinality(dispatched) = WindowSize

\* The completions the loop has handled so far in this run: every success
\* was given to the callback and every failure was counted.
CompletionsHandled ==
    error_count + BagCardinality([c \in LookupCalls |-> CopiesIn(c, calls)])

\* The indices of the endpoint list.
Endpoints == 0 .. servers - 1

\* The endpoint given by a step that dispatches a lookup: the seeding loop
\* gives the j-th lookup endpoint j mod n, and the resolution loop gives the
\* lookup it admits endpoint c mod n, c the completions handled before the
\* one being handled.  The task that enters the pool carries that endpoint.
EndpointOfDispatch ==
    Len(assigned') = Len(assigned) + 1 =>
        LET e == assigned'[Len(assigned')]
        IN  /\ e \in Endpoints
            /\ pc = "seed" => e = Len(assigned) % servers
            /\ pc = "loop" => e = CompletionsHandled % servers
            /\ \E t \in tasks' \ tasks : t.server = e

\* C16: the j-th seeded lookup (j from 0) uses endpoint j mod n; the lookup
\* admitted while a completion is handled uses endpoint c mod n, where c is
\* the number of completions, successes and failures, handled earlier in
\* the run; and every endpoint index used lies within the endpoint list.
C16_EndpointAssignment ==
    /\ [][EndpointOfDispatch]_vars
    /\ [](\A t \in tasks : t.server \in Endpoints)
    /\ [](\A k \in 1..Len(assigned) : assigned[k] \in Endpoints)

\* With two endpoints, three completions were handled, failures and
\* successes among them, and the lookups they admitted went to endpoints 0,
\* 1 and, the index having wrapped, 0 again.
C16_Witness ==
    /\ pc = "loop"
    /\ servers = 2
    /\ error_count > 0
    /\ LookupCalls # {}
    /\ CompletionsHandled = 3
    /\ assigned = <<0, 1, 0, 1, 0>>

\* Number of lookups given to endpoint e so far in this run.
GivenTo(e) == Cardinality({k \in 1..Len(assigned) : assigned[k] = e})

\* Every lookup dispatched after the first got the endpoint that cyclically
\* follows the one of the lookup dispatched just before it.
CyclicInDispatchOrder ==
    \A k \in 2..Len(assigned) : assigned[k] = (assigned[k - 1] + 1) % servers

\* No endpoint has been given two lookups more than another.
EvenlySpread ==
    \A a, b \in Endpoints : GivenTo(a) - GivenTo(b) <= 1

\* C17: in dispatch order across seeding and refills every lookup gets the
\* endpoint cyclically following that of the previously dispatched lookup,
\* so the numbers of lookups given to any two endpoints differ by at most
\* one.
C17_RoundRobinInDispatchOrder ==
    pc \in {"seed", "loop", "ok"} => CyclicInDispatchOrder /\ EvenlySpread

\* The run has opened its writer (it had domains to resolve).
WriterOpened == wtr # NoWriter

\* The positions of `written` at which an empty line ends.
BlankLines ==
    {k \in 1..Len(written) :
        written[k] = NL /\ (k = 1 \/ written[k - 1] = NL)}

\* What the run has written: one new-line, then one line per record the
\* callback was given after a lookup, and nothing else.
WrittenIsSeparatorThenRecords ==
    /\ Len(written) >= 1
    /\ written[1] = NL
    /\ BlankLines = {1}
    /\ LET records == CacheRecords(Tail(written))
       IN  /\ Len(records) = Cardinality(LookupCalls)
              \/ (pc = "err" /\ Len(records) = Cardinality(LookupCalls) - 1)
           /\ \A k \in 1..Len(records) :
                 LookupCall(records[k]) \in LookupCalls

\* The bytes of a returned run are the tail of the file of its day.
WrittenEndsTodaysFile ==
    LET content == files[wtr.path].content
    IN  /\ wtr.path = Today(clock)
        /\ Len(content) >= Len(written)
        /\ SubSeq(content, Len(content) - Len(written) + 1, Len(content))
              = written

\* C18: a run that resolves anything first writes exactly one new-line, the
\* record separator, to the cache file of its day, and every record it
\* appends comes after that line.
C18_SeparatorFirst ==
    /\ WriterOpened => WrittenIsSeparatorThenRecords
    /\ (WriterOpened /\ pc = "ok") => WrittenEndsTodaysFile
    /\ ~WriterOpened => written = <<>>

\* A run has returned after appending its separator and records to a file
\* of the same day that already had content.
C18_Witness ==
    /\ pc = "ok"
    /\ WriterOpened
    /\ LookupCalls # {}
    /\ Len(files[wtr.path].content) > Len(written)
    /\ Len(written) > 1

\* This is the run that follows an interrupted one.
AfterInterrupt == run = 2 /\ "complete" \in DOMAIN prev

\* The domains whose record the interrupted run wrote completely.
CompleteDomains == {r.domain : r \in prev.complete}

\* Every input domain whose record was not completely written is pending
\* once the cache is loaded, and has been looked up when the run returns Ok.
TornAreResolvedAgain ==
    \A d \in input \ CompleteDomains :
        /\ (pc = "read_dir" /\ unread = {}) => d \in domains
        /\ pc = "ok" => d \in BagToSet(dispatched)

\* Every record the cache load hands to the callback is a record that a
\* lookup of the interrupted run returned.
LoadedWereReturned ==
    \A c \in BagToSet(calls) :
        c.from = "cache" =>
            DNSResultRecord(c.domain, c.cnames, c.ips) \in prev.returned

\* C19: after a run interrupted before its final flush, with only a prefix
\* of the buffered bytes in the file, the next run finds every domain whose
\* record was not completely written still pending and resolves it again,
\* and every record it loads from the cache is one a lookup returned.
C19_TornRecordsAreNotLoaded ==
    AfterInterrupt => TornAreResolvedAgain /\ LoadedWereReturned

\* The cache load is over.
CacheLoaded == pc # "read_dir" \/ unread = {}

\* Input domain d has a record that parses in some file young enough to be
\* read.
HasValidCacheRecord(d) ==
    \E n \in DOMAIN files :
        /\ IsFresh(files[n].modified, clock)
        /\ d \in RecordDomains(FileRecords(n))

\* After the load, and before the run writes anything, nothing is pending
\* exactly when every input domain had a valid cache record (which includes
\* the empty input).
NothingPendingMeansAllCached ==
    (CacheLoaded /\ wtr = NoWriter /\ pc \in {"read_dir", "ok", "open"}) =>
        (domains = {} <=> \A d \in input : HasValidCacheRecord(d))

\* The step taken after the load with nothing pending returns Ok, and the
\* only step that returns Ok from the load is that one; it leaves the files
\* alone, and no writer was opened and no lookup dispatched.
ReturnsWithoutTouchingFiles ==
    /\ (pc = "read_dir" /\ unread = {} /\ domains = {} /\ pc' # pc) =>
           pc' = "ok"
    /\ (pc = "read_dir" /\ pc' = "ok") =>
           /\ domains = {}
           /\ files' = files
           /\ wtr' = NoWriter
           /\ dispatched' = EmptyBag /\ assigned' = <<>> /\ tasks' = {}
           /\ written' = <<>>
    /\ pc = "read_dir" => files' = files

\* C20: when nothing is pending after the cache load (every input domain
\* had a valid cache record, or the input was empty), lookup_domains returns
\* Ok without dispatching a lookup and without creating, opening for append
\* or writing a cache file: the files and their modification times are as
\* they were.
C20_NothingPendingTouchesNothing ==
    /\ []NothingPendingMeansAllCached
    /\ [][ReturnsWithoutTouchingFiles]_vars
    /\ []((pc = "ok" /\ domains = {}) => wtr = NoWriter /\ written = <<>>)

\* A run over a non-empty input returned Ok having served every domain from
\* the cache, without opening a writer.
C20_Witness ==
    /\ pc = "ok"
    /\ run = 1
    /\ input # {}
    /\ domains = {}
    /\ wtr = NoWriter
    /\ \A d \in input : CallsFor(d) > 0

(***************************************************************************)
(* Further properties of the builder.                                      *)
(***************************************************************************)
\* Builder b lets domain d be disallowed: d is not an allowed exact domain
\* and no name strictly above d is an allowed subdomain.
MayDisallowExact(b, d) ==
    /\ d \notin b.allow_domains
    /\ ~\E a \in b.allow_subdomains : StrictlyBelow(d, a)

\* The builder fields other than disallow_domains.
OtherThanDisallowDomains == DOMAIN NewBuilder \ {"disallow_domains"}

\* What add_disallow_domain(d) makes of builder b.
DisallowExactEffect(b, d) ==
    LET after == add_disallow_domain(b, d)
    IN  /\ \A fld \in OtherThanDisallowDomains : after[fld] = b[fld]
        /\ IF MayDisallowExact(b, d)
           THEN after.disallow_domains = b.disallow_domains \cup {d}
           ELSE after = b

\* C21: add_disallow_domain(d) inserts d into the disallowed exact domains
\* if and only if d is not an allowed exact domain and no proper ancestor
\* of d is an allowed subdomain; a dropped insertion leaves the builder as
\* it was, and no other set of the builder changes either way.
C21_DisallowExactDomain ==
    /\ [](\A d \in Universe : DisallowExactEffect(builder, d))
    /\ [][\A d \in Universe :
            AddDisallowDomain(d) =>
                /\ \A fld \in OtherThanDisallowDomains :
                      builder'[fld] = builder[fld]
                /\ builder'.disallow_domains =
                      IF MayDisallowExact(builder, d)
                      THEN builder.disallow_domains \cup {d}
                      ELSE builder.disallow_domains]_vars

\* "a" is an allowed subdomain and, not being its own ancestor, was inserted
\* as a disallowed exact domain all the same; an insertion of "b.a" would
\* now be dropped.
C21_Witness ==
    /\ inserts = 2
    /\ builder = [NewBuilder EXCEPT !.allow_subdomains = {DomainOf(1)},
                                    !.disallow_domains = {DomainOf(1)}]
    /\ add_disallow_domain(builder, DomainOf(2)) = builder

\* The positions of `ops` at which method m was called with argument v.
CallsOf(m, v) == {k \in 1..Len(ops) : ops[k] = Op(m, v)}

\* The last of a non-empty set of positions.
Last(S) == CHOOSE k \in S : \A j \in S : j <= k

\* v was both allowed (by method am) and disallowed (by method dm), and its
\* last disallow call came after its last allow call.
DisallowedAfterAllowed(am, dm, v) ==
    /\ CallsOf(am, v) # {}
    /\ CallsOf(dm, v) # {}
    /\ Last(CallsOf(dm, v)) > Last(CallsOf(am, v))

\* An allow call leaves its value allowed and not disallowed; a disallow
\* call leaves its value disallowed and the allow set as it was.
LastIpCallEffect ==
    ops # <<>> =>
        LET op == ops[Len(ops)]
        IN  /\ op.method = "add_allow_ip_addr" =>
                op.arg \in builder.allow_ips /\ op.arg \notin builder.disallow_ips
            /\ op.method = "add_allow_ip_subnet" =>
                op.arg \in builder.allow_ip_net
                    /\ op.arg \notin builder.disallow_ip_net
            /\ op.method = "add_disallow_ip_addr" => op.arg \in builder.disallow_ips
            /\ op.method = "add_disallow_ip_subnet" =>
                op.arg \in builder.disallow_ip_net

\* C22: allowing an address or subnet evicts it from the disallow set, and
\* disallowing one always inserts it; so after any sequence of calls a value
\* is in both the allow and the disallow set exactly when it was both
\* allowed and disallowed and was last disallowed after it was last allowed.
C22_IpAllowEvictsDisallowInserts ==
    /\ LastIpCallEffect
    /\ \A ip \in IpAddrs :
          (ip \in builder.allow_ips /\ ip \in builder.disallow_ips)
              <=> DisallowedAfterAllowed("add_allow_ip_addr",
                                         "add_disallow_ip_addr", ip)
    /\ \A net \in IpNets :
          (net \in builder.allow_ip_net /\ net \in builder.disallow_ip_net)
              <=> DisallowedAfterAllowed("add_allow_ip_subnet",
                                         "add_disallow_ip_subnet", net)

\* An address was disallowed, allowed, and disallowed again: it is in both
\* sets.
C22_Witness ==
    /\ ops = <<Op("add_disallow_ip_addr", <<0, 1>>),
               Op("add_allow_ip_addr", <<0, 1>>),
               Op("add_disallow_ip_addr", <<0, 1>>)>>
    /\ <<0, 1>> \in builder.allow_ips \cap builder.disallow_ips

\* The rearrangements of a sequence of n calls.
Orders(n) ==
    {p \in [1..n -> 1..n] : \A j, k \in 1..n : p[j] = p[k] => j = k}

\* The calls of `ops` taken in the order p.
Permuted(p) == [k \in 1..Len(ops) |-> ops[p[k]]]

\* The engines compiled from the builders the rearrangements of `ops` leave.
EnginesOfAllOrders ==
    {to_domain_filter(Build(Permuted(p))) : p \in Orders(Len(ops))}

\* What engine e can answer for (domain, cnames, ips).
Verdicts(e, domain, cnames, ips) ==
    {allowed(e, domain, cnames, ips, r) :
        r \in check_network_urls(e.adblock, domain)}

\* C23: the verdicts of the compiled engine do not depend on the order of
\* the builder calls: the engines compiled after any two rearrangements of
\* the same calls on exact domains, subdomains, addresses, subnets and
\* patterns give the same combined verdict for every (domain, cnames, ips),
\* whether or not the builders are the same.
C23_VerdictsIgnoreInsertionOrder ==
    \A e \in EnginesOfAllOrders :
        \A d \in Universe, cnames \in QueryCnames, ips \in QueryIps :
            Verdicts(e, d, cnames, ips)
                = Verdicts(to_domain_filter(builder), d, cnames, ips)

\* The subdomains of "a" were allowed and then "b.a" disallowed, which was
\* dropped; made the other way round the calls leave "b.a" disallowed, so
\* the two builders differ.
C23_Witness ==
    /\ ops = <<Op("add_allow_subdomain", DomainOf(1)),
               Op("add_disallow_domain", DomainOf(2))>>
    /\ builder.disallow_domains = {}
    /\ \E e \in EnginesOfAllOrders : e.disallow_domains = {DomainOf(2)}

====
